---- MODULE Spec2Model ----
(***************************************************************************)
(* The PolyGlot workspace: folder load + project analysis, the batch       *)
(* conversion loop, its report, history and archive.                       *)
(*                                                                         *)
(* src/App.tsx holds two versions of the component.  The first (lines      *)
(* 1-303: handleUpload / startConversion) is called "App1" here, the       *)
(* second (lines 305-835: handleFileUpload / runConversion) "App2".        *)
(* The service exists in three versions: "SvcA" (geminiService.ts 1-122),  *)
(* "SvcB" (geminiService.ts 125-225) and "SvcC" (unnamed/part_001).        *)
(* A behaviour fixes one version of each in its first state.               *)
(*                                                                         *)
(* An action is one run of a handler from one await to the next: React     *)
(* runs a handler without interruption until it awaits, and the state      *)
(* setters it calls are committed before the next event is handled.        *)
(***************************************************************************)
EXTENDS Integers, Sequences, FiniteSets, TLC

\* ------------------------------------------------------------------ bounds
MaxEvents == 3     \* user events (folder selections, presses of the run button)
LongRuns == 17     \* presses of the run button in the long-session behaviours
LiveRuns == 2      \* presses of the run button in the behaviours with fairness
OverlapEvents == 2 \* folder selections, and presses of the run button, in OverlapSpec

\* ------------------------------------------------------- program constants
HistoryCap == 50   \* .slice(0, 50)

NoValue == "undefined"   \* JavaScript undefined / null of an optional value

\* ------------------------------------------------------------ small helpers
Take(s, n) == SubSeq(s, 1, IF Len(s) < n THEN Len(s) ELSE n)

\* the permutations of the positions of s, as sequences of positions
Perms(n) == {p \in [1..n -> 1..n] : \A a, b \in 1..n : a # b => p[a] # p[b]}

\* ------------------------------------------------- the user's file system
\* A File of the browser: its name and its webkitRelativePath, the path as
\* the sequence of its slash-separated segments.
FileA == [name |-> "a.py", path |-> <<"proj", "a.py">>]
FileB == [name |-> "b.py", path |-> <<"proj", "b.py">>]
FileC == [name |-> "c.py", path |-> <<"proj", "c.py">>]
FilePng == [name |-> "logo.png", path |-> <<"proj", "logo.png">>]
FilePkg == [name |-> "package.json", path |-> <<"proj", "package.json">>]
FileDep == [name |-> "x.js", path |-> <<"proj", "node_modules", "x.js">>]

\* What the user can select in the file dialog (e.target.files, in order).
Selections ==
  { <<FileA, FileB, FilePng>>,
    <<FilePkg>>,
    <<FileDep>> }

\* file.name.slice((file.name.lastIndexOf(".") - 1 >>> 0) + 2).toLowerCase(),
\* with the dot put back (`.${ext}`), for the names of the model.
DotExt(name) ==
  CASE name = "a.py" -> ".py"
    [] name = "b.py" -> ".py"
    [] name = "c.py" -> ".py"
    [] name = "logo.png" -> ".png"
    [] name = "package.json" -> ".json"
    [] name = "x.js" -> ".js"
    [] OTHER -> "."

CONFIG_FILES ==
  { "package.json", "tsconfig.json", "vite.config.ts", "vite.config.js",
    "webpack.config.js", "pom.xml", "composer.json", "manifest.json",
    ".env", ".gitignore", "package-lock.json", "yarn.lock", "pnpm-lock.yaml" }

BINARY_EXTENSIONS ==
  { ".png", ".jpg", ".jpeg", ".gif", ".mp4", ".zip", ".pdf", ".exe", ".dll",
    ".bin", ".obj", ".svg", ".ico", ".woff", ".woff2", ".ttf" }

\* /\.(ts|js|py|java|cpp|php|go|rust|c|h|cs|html|css|json)$/i  (App1)
TextExtensions ==
  { ".ts", ".js", ".py", ".java", ".cpp", ".php", ".go", ".rust", ".c", ".h",
    ".cs", ".html", ".css", ".json" }

\* The directory segments that hold the excluded substrings.
ExcludedDirs == {"node_modules", ".git"}

\* App1: path.includes('node_modules') || path.includes('.git'): the
\* substring may sit in any segment, the file name included.
ExcludedV1(path) == \E k \in 1..Len(path) : path[k] \in ExcludedDirs \cup {".gitignore"}

\* App2: path.includes('node_modules/') || path.includes('.git/'): a
\* directory segment (one followed by a slash) ends with the name.
ExcludedV2(path) == \E k \in 1..(Len(path) - 1) : path[k] \in ExcludedDirs

\* The text FileReader.readAsText yields for a file: opaque, one per file.
TextOf(file) == <<"text", file.path>>

\* The File object itself (App2 keeps it as originalFile and zips it).
BlobOf(file) == <<"blob", file.path>>

\* ------------------------------------------------------------ the Gateway
\* What the Gateway can answer to generateContent for a convert request.
\* kind "reject": the call throws (network, quota, credential);
\* kind "noText": response.text is empty or missing;
\* kind "badJson": the text does not parse as JSON;
\* kind "noFiles": the text parses to an object without a `files` field;
\* kind "json":    the text parses to {files: [...]}.
OutMain(file) ==
  [name |-> "Main.java", path |-> <<"proj", "Main.java">>,
   content |-> <<"java", file.path>>]

OutUtil(file) ==
  [name |-> "Util.java", path |-> <<"proj", "Util.java">>,
   content |-> <<"java", file.path>>]

OutReport(file) ==
  [name |-> "conversion_report.json", path |-> <<"conversion_report.json">>,
   content |-> <<"java", file.path>>]

\* The file arrays the model lets the Gateway return for `file`: none, one,
\* two (a split), and one at the path the report is written to.
GatewayFileLists(file) ==
  { <<>>, <<OutMain(file)>>, <<OutMain(file), OutUtil(file)>>, <<OutReport(file)>> }

ConvertResponses(file) ==
  { [kind |-> "reject"], [kind |-> "noText"], [kind |-> "badJson"], [kind |-> "noFiles"] }
    \cup { [kind |-> "json", files |-> l] : l \in GatewayFileLists(file) }

\* What the Gateway can answer to generateContent for an analyze request.
AnalysisPython == [projectType |-> "Python App", primaryLanguage |-> "python"]
AnalysisEmpty == [projectType |-> NoValue, primaryLanguage |-> NoValue]

AnalyzeResponses ==
  { [kind |-> "reject"], [kind |-> "noText"], [kind |-> "badJson"],
    [kind |-> "json", obj |-> AnalysisPython] }

\* A Gateway that is called without a valid key rejects the call.
Answers(responses, key) == IF key THEN responses ELSE {[kind |-> "reject"]}

\* ------------------------------------------------- GeminiConversionService
\* The outcome of a service call: it throws an Error with a message, or it
\* returns a value.  The messages are cut to their first sentence, without
\* the file name.
Throw(message) == [t |-> "throw", msg |-> message]
Return(value) == [t |-> "ret", val |-> value]

\* getAI: only SvcC checks the key; it throws before anything is sent.
GetAIThrows(service, key) == service = "SvcC" /\ ~key

\* analyzeProject once generateContent has answered `resp`.
AnalyzeProject(service, resp) ==
  LET parsed == CASE resp.kind = "noText" -> Return(AnalysisEmpty)   \* '{}'
                  [] resp.kind = "json" -> Return(resp.obj)
                  [] resp.kind = "badJson" -> Throw("SyntaxError")
                  [] OTHER -> Throw("gateway error")
  IN CASE service = "SvcA" ->
            IF parsed.t = "throw"
              THEN Throw("Failed to analyze project structure.")
              ELSE parsed
       [] service = "SvcC" ->
            IF parsed.t = "throw" THEN Throw("Projectanalyse mislukt.") ELSE parsed
       [] OTHER -> parsed    \* SvcB has no try/catch

\* analyzeProject when getAI throws (SvcC, inside its try).
AnalyzeProjectNoKey == Throw("Projectanalyse mislukt.")

\* JSON.parse of the answer's text (after cleanJsonResponse and the
\* `response.text || '{"files": []}'` default), as the value of its `files`
\* field: an array, or undefined when the field is missing.
Undefined == [isArray |-> FALSE, items |-> <<>>]
Array(l) == [isArray |-> TRUE, items |-> l]

ParseFiles(resp) ==
  CASE resp.kind = "noText" -> Return(Array(<<>>))
    [] resp.kind = "json" -> Return(Array(resp.files))
    [] resp.kind = "noFiles" -> Return(Undefined)
    [] resp.kind = "badJson" -> Throw("SyntaxError")
    [] OTHER -> Throw("gateway error")

\* `result.files || []` (SvcA, SvcC)
FilesOrEmpty(filesField) == IF filesField.isArray THEN filesField ELSE Array(<<>>)

\* convertFileWithSplitting once generateContent has answered `resp`.
ConvertFileWithSplitting(service, resp) ==
  LET parsed == ParseFiles(resp)
  IN CASE service = "SvcA" ->
            IF parsed.t = "throw"
              THEN Throw("Failed to convert the file.")
              ELSE Return(FilesOrEmpty(parsed.val))
       [] service = "SvcC" ->
            IF parsed.t = "throw"
              THEN Throw("Conversie mislukt.")
              ELSE Return(FilesOrEmpty(parsed.val))
       [] OTHER -> parsed    \* SvcB: no try/catch, returns result.files

\* convertFileWithSplitting when getAI throws (SvcC, inside its try).
ConvertNoKey == Throw("Conversie mislukt.")

\* conversionService.convertFile, which App1 calls: no version of the service
\* under src/ defines it.  Modelled from the specification of `convert`
\* (4.1): it fails when the Gateway call throws, returns empty text, or
\* returns text that fails JSON/schema parsing, and returns the files
\* otherwise.
ConvertFile(resp) ==
  IF resp.kind = "json" THEN Return(Array(resp.files)) ELSE Throw("ConversionFailed")

\* ------------------------------------------------------------------ state
VARIABLES
  app,          \* "App1" | "App2": the version of src/App.tsx that runs
  svc,          \* "SvcA" | "SvcB" | "SvcC": the version of the service
  apiKey,       \* process.env.API_KEY is set (and valid)
  files,        \* useState<ProjectFile[]>
  history,      \* useState<ConversionHistoryItem[]>
  sourceLang,   \* useState<Language | 'auto'> (App2)
  isProcessing, \* useState(false)
  analysis,     \* useState<ProjectAnalysis | null>
  report,       \* useState<ConversionReport | null> (App2)
  progress,     \* useState(0)
  zipUrl,       \* useState<string | null> (App2): the archive behind the URL
  downloaded,   \* App1: the archives handed to the browser by a.click()
  uploads,      \* the invocations of the upload handler, by number
  runs,         \* the invocations of the conversion handler, by number
  clock         \* history entries created so far (orders the Date.now() stamps)

vars ==
  << app, svc, apiKey, files, history, sourceLang, isProcessing, analysis,
     report, progress, zipUrl, downloaded, uploads, runs, clock >>

config == << app, svc, apiKey >>

Null == [null |-> TRUE]

targetLang == "java"        \* useState<Language>('java'); never changed here
\* A variant of the fallback below: another language of the list.
FallbackLangPython == "python"

FallbackLang == "javascript"

NoFile == <<"none">>

\* An invocation of the upload handler that has not started or has returned.
\* `loaded` is the list handed to analyzeProject while that call is awaited.
IdleUpload == [pc |-> "idle", sel |-> <<>>, sourceLang |-> "auto", loaded |-> <<>>]

\* The local variables of an invocation of startConversion / runConversion;
\* `files` and `analysis` are the values of the render the button was
\* pressed in.  `log` records, per file handled, what the convert call did;
\* `overlapped` that another run was in progress at some moment of this one.
\* Neither is a variable of the program.
IdleRun ==
  [ pc |-> "idle", files |-> <<>>, analysis |-> Null, effectiveSourceLang |-> "auto",
    i |-> 0, splits |-> 0, convertedCount |-> 0, preservedCount |-> 0,
    errorCount |-> 0, errors |-> <<>>, zip |-> <<>>, newHistoryItems |-> <<>>,
    report |-> Null, log |-> <<>>, overlapped |-> FALSE ]

\* The locals of a handler that has returned are gone; the model keeps them
\* for the one state in which the handler has just returned, so that its
\* results can be compared with the state it left.
Forget(rs) ==
  [r \in DOMAIN rs |->
     IF rs[r].pc \in {"done", "failed"} THEN [IdleRun EXCEPT !.pc = "over"] ELSE rs[r]]

\* The versions a behaviour can run.  App1 calls conversionService.convertFile,
\* which belongs to a version of the service that is not under src/; its
\* analyzeProject is taken from SvcA, the first version of the file.  A
\* missing key matters to SvcC alone (the others send the call, which the
\* Gateway rejects).
Variants ==
  { <<"App1", "SvcA", TRUE>>,
    <<"App2", "SvcA", TRUE>>, <<"App2", "SvcB", TRUE>>, <<"App2", "SvcC", TRUE>>,
    <<"App2", "SvcA", FALSE>>, <<"App2", "SvcB", FALSE>>, <<"App2", "SvcC", FALSE>> }

InitWith(maxLoads, maxRuns, variants) ==
  /\ \E v \in variants : app = v[1] /\ svc = v[2] /\ apiKey = v[3]
  /\ files = <<>>
  /\ history = <<>>
  /\ sourceLang = "auto"
  /\ isProcessing = FALSE
  /\ analysis = Null
  /\ report = Null
  /\ progress = 0
  /\ zipUrl = Null
  /\ downloaded = <<>>
  /\ uploads = [u \in 1..maxLoads |-> IdleUpload]
  /\ runs = [r \in 1..maxRuns |-> IdleRun]
  /\ clock = 0

Init == InitWith(MaxEvents, MaxEvents, Variants)

\* ------------------------------------------------ handleUpload (App1)
\* The positions of the selection whose file is read; the others return
\* null from the map and are dropped.
ReadV1(sel) == {k \in 1..Len(sel) : ~ExcludedV1(sel[k].path)}

\* A variant of the push below whose id leaves out the index of the file.
LoadedFileV1NoIndex(u, sel, k) ==
  [ id |-> <<"f", u, 0>>,
    name |-> sel[k].name,
    path |-> sel[k].path,
    content |-> TextOf(sel[k]),
    outputFiles |-> <<>>,
    status |-> "idle",
    error |-> NoValue,
    isAsset |-> DotExt(sel[k].name) \notin TextExtensions,
    originalFile |-> NoFile ]

\* loadedFiles.push in reader.onload, for the file at position k of the
\* selection of upload u.
LoadedFileV1(u, sel, k) ==
  [ id |-> <<"f", u, k - 1>>,
    name |-> sel[k].name,
    path |-> sel[k].path,
    content |-> TextOf(sel[k]),
    outputFiles |-> <<>>,
    status |-> "idle",
    error |-> NoValue,
    isAsset |-> DotExt(sel[k].name) \notin TextExtensions,
    originalFile |-> NoFile ]

\* ------------------------------------------- handleFileUpload (App2)
IsBinary(file) == DotExt(file.name) \in BINARY_EXTENSIONS
IsConfig(name) == name \in CONFIG_FILES

\* The positions pushed synchronously (binary files), in selection order.
SyncV2(sel) == {k \in 1..Len(sel) : ~ExcludedV2(sel[k].path) /\ IsBinary(sel[k])}

\* The positions whose file goes through a FileReader.
ReadV2(sel) == {k \in 1..Len(sel) : ~ExcludedV2(sel[k].path) /\ ~IsBinary(sel[k])}

LoadedFileV2(u, sel, k) ==
  IF IsBinary(sel[k])
    THEN [ id |-> <<"asset", u, k - 1>>,
           name |-> sel[k].name,
           path |-> sel[k].path,
           content |-> <<"[Binary Content]", <<>> >>,
           outputFiles |-> <<>>,
           status |-> "completed",
           error |-> NoValue,
           isAsset |-> TRUE,
           originalFile |-> BlobOf(sel[k]) ]
    ELSE [ id |-> <<"file", u, k - 1>>,
           name |-> sel[k].name,
           path |-> sel[k].path,
           content |-> TextOf(sel[k]),
           outputFiles |->
             IF IsConfig(sel[k].name)
               THEN << [name |-> sel[k].name, content |-> TextOf(sel[k]),
                        path |-> sel[k].path] >>
               ELSE <<>>,
           status |-> IF IsConfig(sel[k].name) THEN "completed" ELSE "idle",
           error |-> NoValue,
           isAsset |-> FALSE,
           originalFile |-> BlobOf(sel[k]) ]

\* ------------------------------------------------ both upload handlers
\* The set as the sequence of its elements in increasing order.
RECURSIVE Ascending(_)
Ascending(S) ==
  IF S = {} THEN <<>>
  ELSE LET m == CHOOSE x \in S : \A y \in S : x <= y
       IN <<m>> \o Ascending(S \ {m})

ReadPositions(sel) == IF app = "App1" THEN ReadV1(sel) ELSE ReadV2(sel)

\* The orders in which the FileReaders of a selection can complete: the
\* sequences that hold each read position once.
ReadOrders(sel) ==
  LET R == Ascending(ReadPositions(sel))
  IN {[k \in 1..Len(R) |-> R[p[k]]] : p \in Perms(Len(R))}

\* loadedFiles after Promise.all: what was pushed synchronously, then one
\* push per completed read, in completion order.
LoadedFiles(u, sel, order) ==
  IF app = "App1"
    THEN [k \in 1..Len(order) |-> LoadedFileV1(u, sel, order[k])]
    ELSE LET sync == Ascending(SyncV2(sel))
         IN [k \in 1..Len(sync) |-> LoadedFileV2(u, sel, sync[k])]
            \o [k \in 1..Len(order) |-> LoadedFileV2(u, sel, order[k])]

\* The handler after `await Promise.all(readers)`, up to its next await:
\* setFiles, and the analyze call unless App2 finds nothing loaded.  When
\* getAI throws, analyzeProject rejects at once and the catch/finally run
\* before any other event.
CommitLoad(u, sel, order) ==
  LET loaded == LoadedFiles(u, sel, order)
      analyze == app = "App1" \/ Len(loaded) > 0
      waits == analyze /\ ~GetAIThrows(svc, apiKey)
  IN /\ files' = loaded
     /\ isProcessing' = IF analyze THEN waits ELSE isProcessing
     /\ uploads' = [uploads EXCEPT ![u] =
          [ pc |-> IF waits THEN "analyzing" ELSE "done",
            sel |-> sel,
            sourceLang |-> IF uploads[u].pc = "idle" THEN sourceLang
                           ELSE uploads[u].sourceLang,
            loaded |-> IF waits THEN loaded ELSE <<>> ]]

\* The user picks a selection in the file dialog: the change event runs the
\* handler up to `await Promise.all(readers)`.  With no FileReader started
\* the await resumes at once.
UploadSelect(u, sel) ==
  /\ uploads[u].pc = "idle"
  /\ u > 1 => uploads[u - 1].pc # "idle"
  /\ IF app = "App2" THEN zipUrl' = Null /\ report' = Null
                     ELSE UNCHANGED << zipUrl, report >>
  /\ IF ReadPositions(sel) = {}
       THEN CommitLoad(u, sel, <<>>)
       ELSE /\ uploads' = [uploads EXCEPT ![u] =
                 [pc |-> "reading", sel |-> sel, sourceLang |-> sourceLang,
                  loaded |-> <<>>]]
            /\ UNCHANGED << files, isProcessing >>
  /\ runs' = Forget(runs)
  /\ UNCHANGED << config, history, sourceLang, analysis, progress, downloaded, clock >>

\* The last FileReader of upload u has completed; the reads completed in
\* `order`.
UploadCommit(u, order) ==
  /\ uploads[u].pc = "reading"
  /\ CommitLoad(u, uploads[u].sel, order)
  /\ runs' = Forget(runs)
  /\ UNCHANGED << config, history, sourceLang, analysis, report, progress, zipUrl,
                  downloaded, clock >>

\* The Gateway answers the analyze call of upload u with `resp`:
\* setAnalysis (and, in App2, setSourceLang when the handler's render had
\* 'auto'), or the catch; then finally setIsProcessing(false).
\* `load` is not a field of the program: it names the upload whose files
\* the analysis is of.
UploadAnalyzed(u, resp) ==
  /\ uploads[u].pc = "analyzing"
  /\ LET res == AnalyzeProject(svc, resp)
     IN IF res.t = "ret"
          THEN /\ analysis' = [ projectType |-> res.val.projectType,
                                primaryLanguage |-> res.val.primaryLanguage,
                                load |-> u ]
               /\ sourceLang' = IF app = "App2" /\ uploads[u].sourceLang = "auto"
                                  THEN res.val.primaryLanguage
                                  ELSE sourceLang
          ELSE UNCHANGED << analysis, sourceLang >>
  /\ isProcessing' = FALSE
  /\ uploads' = [uploads EXCEPT ![u].pc = "done", ![u].loaded = <<>>]
  /\ runs' = Forget(runs)
  /\ UNCHANGED << config, files, history, report, progress, zipUrl, downloaded, clock >>

\* ------------------------------------------- the conversion handlers
\* A variant of the update below that patches every entry of the list.
MapByIdAll(fs, id, patch) ==
  [k \in 1..Len(fs) |->
     [field \in DOMAIN fs[k] |->
        IF field \in DOMAIN patch THEN patch[field] ELSE fs[k][field]]]

\* prev.map(f => f.id === id ? {...f, ...patch} : f), as setFiles applies it
\* to the current list; `patch` is the record of the fields that are set.
MapById(fs, id, patch) ==
  [k \in 1..Len(fs) |->
     IF fs[k].id = id
       THEN [field \in DOMAIN fs[k] |->
               IF field \in DOMAIN patch THEN patch[field] ELSE fs[k][field]]
       ELSE fs[k]]

\* zip.file(path, content): JSZip keeps one entry per path, the last written.
\* `src` is not part of the archive: it names the file (or the report) the
\* entry was written for.
ZipFile(zip, path, content, src) ==
  [p \in (DOMAIN zip) \cup {path} |->
     IF p = path THEN [content |-> content, src |-> src] ELSE zip[p]]

RECURSIVE ZipFiles(_, _, _)
\* resultFiles.forEach(rf => zip.file(rf.path, rf.content))
ZipFiles(zip, resultFiles, src) ==
  IF resultFiles = <<>> THEN zip
  ELSE ZipFiles(ZipFile(zip, Head(resultFiles).path, Head(resultFiles).content, src),
                Tail(resultFiles), src)

ReportPath == <<"conversion_report.json">>
ReportSrc == <<"report", 0, 0>>

\* Math.round(((i + 1) / n) * 100), i counted from 0.  Math.round rounds
\* halves up; the quotient is exact for the list lengths of the model.
Progress(i, n) == (200 * (i + 1) + n) \div (2 * n)

Languages ==
  {"python", "java", "javascript", "typescript", "cpp", "go", "rust", "php", "html", "css"}

\* analysis?.primaryLanguage || 'javascript'
PrimaryOrFallback(a) ==
  IF a = Null \/ a.primaryLanguage = NoValue THEN FallbackLang ELSE a.primaryLanguage

\* sourceLang === 'auto' ? (analysis?.primaryLanguage || 'javascript') : sourceLang
EffectiveSourceLang(lang, a) == IF lang = "auto" THEN PrimaryOrFallback(a) ELSE lang

\* A variant of the entry below that leaves the output files out.
HistoryItemNoOutput(file, lang, resultFiles, seq) ==
  [ seq |-> seq, fileId |-> file.id, fileName |-> file.name,
    sourceLang |-> lang, targetLang |-> targetLang,
    originalContent |-> file.content, outputFiles |-> <<>> ]

\* The history entry of a conversion; `seq` stands for the Date.now() of its
\* id and orders the entries by creation.
HistoryItem(file, lang, resultFiles, seq) ==
  [ seq |-> seq, fileId |-> file.id, fileName |-> file.name,
    sourceLang |-> lang, targetLang |-> targetLang,
    originalContent |-> file.content, outputFiles |-> resultFiles ]

\* setHistory(prev => [...newHistoryItems, ...prev].slice(0, 50))  (App2)
SetHistoryV2(prev, newHistoryItems) == Take(newHistoryItems \o prev, HistoryCap)

\* setHistory(prev => [item, ...prev])  (App1)
SetHistoryV1(prev, item) == <<item>> \o prev

Skip == [t |-> "skip"]

\* The state a handler works on between two awaits: the React state it
\* sets and its own local variables `loc`.
Logged(c, file, res) ==
  [c EXCEPT !.loc.log = Append(@, [id |-> file.id, res |-> res])]

\* --- runConversion (App2), one file
\* A variant of the branch below that counts the file it keeps as converted.
PreserveV2Counted(c, i) ==
  LET loc == c.loc
      file == loc.files[i + 1]
      body == IF file.isAsset /\ file.originalFile # NoFile
                THEN file.originalFile ELSE file.content
  IN [c EXCEPT
        !.loc.preservedCount = @ + 1,
        !.loc.convertedCount = @ + 1,
        !.loc.zip = ZipFile(@, file.path, body, file.id),
        !.progress = Progress(i, Len(loc.files))]

\* if (file.isAsset || isConfig) { ... continue; }
PreserveV2(c, i) ==
  LET loc == c.loc
      file == loc.files[i + 1]
      body == IF file.isAsset /\ file.originalFile # NoFile
                THEN file.originalFile ELSE file.content
  IN [c EXCEPT
        !.loc.preservedCount = @ + 1,
        !.loc.zip = ZipFile(@, file.path, body, file.id),
        !.progress = Progress(i, Len(loc.files))]

MarkProcessing == [status |-> "processing"]

\* A variant of the try block below that counts a split twice.
SuccessV2SplitTwice(c, i, resultFiles) ==
  LET loc == c.loc
      file == loc.files[i + 1]
      Completed == [status |-> "completed", outputFiles |-> resultFiles]
  IN [c EXCEPT
        !.loc.splits = IF Len(resultFiles) > 1 THEN @ + 2 ELSE @,
        !.loc.convertedCount = @ + 1,
        !.files = MapById(@, file.id, Completed),
        !.loc.zip = ZipFiles(@, resultFiles, file.id),
        !.loc.newHistoryItems =
           Append(@, HistoryItem(file, loc.effectiveSourceLang, resultFiles, c.clock + 1)),
        !.clock = @ + 1]

\* the try block after the await returned resultFiles
SuccessV2(c, i, resultFiles) ==
  LET loc == c.loc
      file == loc.files[i + 1]
      Completed == [status |-> "completed", outputFiles |-> resultFiles]
  IN [c EXCEPT
        !.loc.splits = IF Len(resultFiles) > 1 THEN @ + 1 ELSE @,
        !.loc.convertedCount = @ + 1,
        !.files = MapById(@, file.id, Completed),
        !.loc.zip = ZipFiles(@, resultFiles, file.id),
        !.loc.newHistoryItems =
           Append(@, HistoryItem(file, loc.effectiveSourceLang, resultFiles, c.clock + 1)),
        !.clock = @ + 1]

\* A variant of the catch below that puts the name in front of the list.
CatchV2Prepend(c, i, message) ==
  LET loc == c.loc
      file == loc.files[i + 1]
      Errored == [status |-> "error", error |-> message]
  IN [c EXCEPT
        !.loc.errorCount = @ + 1,
        !.loc.errors = <<file.name>> \o @,
        !.files = MapById(@, file.id, Errored),
        !.loc.zip = ZipFile(@, file.path, file.content, file.id)]

\* catch (err: any) { ... }
CatchV2(c, i, message) ==
  LET loc == c.loc
      file == loc.files[i + 1]
      Errored == [status |-> "error", error |-> message]
  IN [c EXCEPT
        !.loc.errorCount = @ + 1,
        !.loc.errors = Append(@, file.name),
        !.files = MapById(@, file.id, Errored),
        !.loc.zip = ZipFile(@, file.path, file.content, file.id)]

\* The rest of the iteration once the convert call has settled with `res`;
\* `resultFiles.length` of an undefined result throws a TypeError into the
\* catch.
SettleV2(c, i, res) ==
  LET file == c.loc.files[i + 1]
      after == IF res.t = "ret"
                 THEN IF res.val.isArray
                        THEN SuccessV2(c, i, res.val.items)
                        ELSE CatchV2(c, i, "Cannot read properties of undefined")
                 ELSE CatchV2(c, i, res.msg)
  IN [Logged(after, file, res) EXCEPT !.progress = Progress(i, Len(c.loc.files))]

\* --- startConversion (App1), one file
\* if (file.isAsset) { zip.file(file.path, file.content); continue; }
PreserveV1(c, i) ==
  LET file == c.loc.files[i + 1]
  IN [c EXCEPT !.loc.zip = ZipFile(@, file.path, file.content, file.id)]

SuccessV1(c, i, results) ==
  LET loc == c.loc
      file == loc.files[i + 1]
      Completed == [status |-> "completed", outputFiles |-> results]
  IN [c EXCEPT
        !.files = MapById(@, file.id, Completed),
        !.loc.zip = ZipFiles(@, results, file.id),
        !.history = SetHistoryV1(@, HistoryItem(file, PrimaryOrFallback(loc.analysis),
                                                results, c.clock + 1)),
        !.clock = @ + 1]

CatchV1(c, i) ==
  LET file == c.loc.files[i + 1]
      Errored == [status |-> "error", error |-> "Transpilatie mislukt"]
  IN [c EXCEPT !.files = MapById(@, file.id, Errored)]

SettleV1(c, i, res) ==
  LET file == c.loc.files[i + 1]
      after == IF res.t = "ret" THEN SuccessV1(c, i, res.val.items) ELSE CatchV1(c, i)
  IN [Logged(after, file, res) EXCEPT !.progress = Progress(i, Len(c.loc.files))]

\* const conversionReport: ConversionReport = {...}  (App2, after the loop)
ConversionReport(loc) ==
  [ detectedProjectType |->
      IF loc.analysis = Null \/ loc.analysis.projectType = NoValue
        THEN "Generic Codebase" ELSE loc.analysis.projectType,
    totalFiles |-> Len(loc.files),
    convertedFiles |-> loc.convertedCount,
    splitsFound |-> loc.splits,
    mergesFound |-> 0,
    manualReviewRequired |-> loc.errors ]

\* JSON.stringify(conversionReport, null, 2): the text of that report.
ReportJson(rep) == <<"report", rep>>

\* From the end of the for loop to `await zip.generateAsync(...)`.
EndOfLoop(c) ==
  IF app = "App2"
    THEN [c EXCEPT
            !.history = SetHistoryV2(@, c.loc.newHistoryItems),
            !.loc.report = ConversionReport(c.loc),
            !.loc.zip = ZipFile(@, ReportPath, ReportJson(ConversionReport(c.loc)),
                                ReportSrc),
            !.loc.i = Len(c.loc.files),
            !.loc.pc = "zipping"]
    ELSE [c EXCEPT !.loc.i = Len(c.loc.files), !.loc.pc = "zipping"]

\* The for loop from index i (counted from 0) up to its next await: the
\* files kept as they are need none, and a convert call whose getAI throws
\* rejects at once, so its catch runs before any other event.
RECURSIVE LoopFrom(_, _)
LoopFrom(c, i) ==
  IF i >= Len(c.loc.files) THEN EndOfLoop(c)
  ELSE
    LET file == c.loc.files[i + 1]
        marked == [c EXCEPT !.files = MapById(@, file.id, MarkProcessing)]
        waiting == [marked EXCEPT !.loc.i = i, !.loc.pc = "converting"]
    IN IF app = "App2"
         THEN IF file.isAsset \/ IsConfig(file.name)
                THEN LoopFrom(Logged(PreserveV2(c, i), file, Skip), i + 1)
                ELSE IF GetAIThrows(svc, apiKey)
                       THEN LoopFrom(SettleV2(marked, i, ConvertNoKey), i + 1)
                       ELSE waiting
         ELSE IF file.isAsset
                THEN LoopFrom(Logged(PreserveV1(c, i), file, Skip), i + 1)
                ELSE IF GetAIThrows(svc, apiKey)
                       THEN LoopFrom(SettleV1(marked, i, ConvertNoKey), i + 1)
                       ELSE waiting

\* The state the handler of run r works on, with `loc` as its locals.
Context(loc) ==
  [files |-> files, progress |-> progress, history |-> history, clock |-> clock,
   loc |-> loc]

\* The other runs that are between their start and their return.
Overlapping(r) ==
  {q \in DOMAIN runs \ {r} : runs[q].pc \in {"converting", "zipping"}}

\* The handler of run r has run up to its next await and left c.
Commit(r, c) ==
  /\ files' = c.files
  /\ progress' = c.progress
  /\ history' = c.history
  /\ clock' = c.clock
  /\ runs' = [q \in DOMAIN runs |->
               IF q = r THEN [c.loc EXCEPT !.overlapped = @ \/ Overlapping(r) # {}]
               ELSE IF q \in Overlapping(r) THEN [runs[q] EXCEPT !.overlapped = TRUE]
               ELSE Forget(runs)[q]]

\* The user presses the run button, which is enabled when
\* !(isProcessing || files.length === 0): the handler runs up to its first
\* await.
RunStart(r) ==
  /\ runs[r].pc = "idle"
  /\ r > 1 => runs[r - 1].pc # "idle"
  /\ ~isProcessing
  /\ Len(files) > 0
  /\ isProcessing' = TRUE
  /\ IF app = "App2" THEN report' = Null /\ zipUrl' = Null
                     ELSE UNCHANGED << report, zipUrl >>
  /\ LET loc == [IdleRun EXCEPT
                   !.files = files,
                   !.analysis = analysis,
                   !.effectiveSourceLang =
                      IF app = "App2" THEN EffectiveSourceLang(sourceLang, analysis)
                                      ELSE PrimaryOrFallback(analysis)]
     IN Commit(r, LoopFrom([Context(loc) EXCEPT !.progress = 0], 0))
  /\ UNCHANGED << config, sourceLang, analysis, downloaded, uploads >>

\* The file whose convert call run r awaits (files[i]).
Awaited(r) ==
  IF runs[r].pc = "converting" THEN runs[r].files[runs[r].i + 1] ELSE FileA

\* The Gateway answers the convert call run r awaits with `resp`: the rest
\* of the iteration, and the loop up to the next await.
RunConverted(r, resp) ==
  /\ runs[r].pc = "converting"
  /\ LET loc == runs[r]
         file == loc.files[loc.i + 1]
         res == IF app = "App2" THEN ConvertFileWithSplitting(svc, resp)
                                ELSE ConvertFile(resp)
         settled == IF app = "App2" THEN SettleV2(Context(loc), loc.i, res)
                                    ELSE SettleV1(Context(loc), loc.i, res)
     IN Commit(r, LoopFrom(settled, loc.i + 1))
  /\ UNCHANGED << config, sourceLang, isProcessing, analysis, report, zipUrl,
                  downloaded, uploads >>

\* URL.createObjectURL(content): the URL, as the archive it serves.
Url(zip) == [null |-> FALSE, archive |-> zip]

\* zip.generateAsync has resolved: the archive is exposed (App2) or
\* downloaded (App1), and isProcessing is reset.
RunZipped(r) ==
  /\ runs[r].pc = "zipping"
  /\ IF app = "App2"
       THEN /\ zipUrl' = Url(runs[r].zip)
            /\ report' = runs[r].report
            /\ UNCHANGED downloaded
       ELSE /\ downloaded' = Append(downloaded, runs[r].zip)
            /\ UNCHANGED << zipUrl, report >>
  /\ isProcessing' = FALSE
  /\ runs' = [Forget(runs) EXCEPT ![r].pc = "done"]
  /\ UNCHANGED << config, files, history, sourceLang, analysis, progress, uploads, clock >>

\* zip.generateAsync rejects (a File of the selection can no longer be
\* read): the handler ends with the exception, nothing after the await runs.
HoldsBlob(zip) == \E p \in DOMAIN zip : zip[p].content[1] = "blob"

RunZipFailed(r) ==
  /\ runs[r].pc = "zipping"
  /\ HoldsBlob(runs[r].zip)
  /\ runs' = [Forget(runs) EXCEPT ![r].pc = "failed"]
  /\ UNCHANGED << config, files, history, sourceLang, isProcessing, analysis, report,
                  progress, zipUrl, downloaded, uploads, clock >>

\* ------------------------------------------------------- specification
\* The user events so far.
Started == Cardinality({u \in DOMAIN uploads : uploads[u].pc # "idle"})
             + Cardinality({r \in DOMAIN runs : runs[r].pc # "idle"})

\* The Gateway's answers to a convert request for `file` and to an analyze
\* request, in the full model.
AnyConvertAnswer(file) == Answers(ConvertResponses(file), apiKey)
AnyAnalyzeAnswer == Answers(AnalyzeResponses, apiKey)

\* The events of a session: the user selects a folder or presses the run
\* button (MaxEvents times in all), a pending read, Gateway call or archive
\* generation completes.
Next ==
  \/ \E u \in 1..MaxEvents, sel \in Selections :
        Started < MaxEvents /\ UploadSelect(u, sel)
  \/ \E u \in 1..MaxEvents : \E order \in ReadOrders(uploads[u].sel) : UploadCommit(u, order)
  \/ \E u \in 1..MaxEvents : \E resp \in AnyAnalyzeAnswer : UploadAnalyzed(u, resp)
  \/ \E r \in 1..MaxEvents : Started < MaxEvents /\ RunStart(r)
  \/ \E r \in 1..MaxEvents : \E resp \in AnyConvertAnswer(Awaited(r)) : RunConverted(r, resp)
  \/ \E r \in 1..MaxEvents : RunZipped(r)
  \/ \E r \in 1..MaxEvents : RunZipFailed(r)

Spec == Init /\ [][Next]_vars

\* A long session: one project of three convertible files and a binary one
\* is loaded once and converted again and again; the Gateway is at its best
\* (every convert call returns one file) and the analysis fails.
LongVariants == { <<"App1", "SvcA", TRUE>>, <<"App2", "SvcA", TRUE>> }
LongSelections == { <<FileA, FileB, FileC, FilePng>> }
LongConvertAnswer(file) == { [kind |-> "json", files |-> <<OutMain(file)>>] }
LongAnalyzeAnswer == { [kind |-> "reject"] }

LongInit == InitWith(1, LongRuns, LongVariants)

\* One folder selection, then up to LongRuns presses of the run button.
LongNext ==
  \/ \E sel \in LongSelections : UploadSelect(1, sel)
  \/ \E order \in ReadOrders(uploads[1].sel) : UploadCommit(1, order)
  \/ \E resp \in LongAnalyzeAnswer : UploadAnalyzed(1, resp)
  \/ \E r \in 1..LongRuns : RunStart(r)
  \/ \E r \in 1..LongRuns : \E resp \in LongConvertAnswer(Awaited(r)) : RunConverted(r, resp)
  \/ \E r \in 1..LongRuns : RunZipped(r)
  \/ \E r \in 1..LongRuns : RunZipFailed(r)

LongSpec == LongInit /\ [][LongNext]_vars

\* A session in which what is pending completes: one folder selection and up
\* to LiveRuns presses of the run button; every FileReader completes, every
\* Gateway call resolves or rejects, and every archive generation resolves
\* or rejects.  The user is free to stop pressing buttons.
LiveInit == InitWith(1, LiveRuns, Variants)

LiveNext ==
  \/ \E sel \in Selections : UploadSelect(1, sel)
  \/ \E order \in ReadOrders(uploads[1].sel) : UploadCommit(1, order)
  \/ \E resp \in AnyAnalyzeAnswer : UploadAnalyzed(1, resp)
  \/ \E r \in 1..LiveRuns : RunStart(r)
  \/ \E r \in 1..LiveRuns : \E resp \in AnyConvertAnswer(Awaited(r)) : RunConverted(r, resp)
  \/ \E r \in 1..LiveRuns : RunZipped(r)
  \/ \E r \in 1..LiveRuns : RunZipFailed(r)

Completes ==
  /\ WF_vars(\E order \in ReadOrders(uploads[1].sel) : UploadCommit(1, order))
  /\ WF_vars(\E resp \in AnyAnalyzeAnswer : UploadAnalyzed(1, resp))
  /\ \A r \in 1..LiveRuns :
       /\ WF_vars(\E resp \in AnyConvertAnswer(Awaited(r)) : RunConverted(r, resp))
       /\ WF_vars(RunZipped(r) \/ RunZipFailed(r))

LiveSpec == LiveInit /\ [][LiveNext]_vars /\ Completes

\* A session of two folder selections and two presses of the run button, in
\* any order the handlers allow: a folder can be selected while a run is in
\* progress, and the run button pressed again once the analysis of that
\* folder has reset isProcessing.  The Gateway rejects a convert call or
\* returns one file for it; both versions of the component run with the first
\* version of the service, the second also with the last one and no key.
OverlapConvertAnswer(file) ==
  Answers({ [kind |-> "reject"], [kind |-> "json", files |-> <<OutMain(file)>>] },
          apiKey)

OverlapVariants ==
  { <<"App1", "SvcA", TRUE>>, <<"App2", "SvcA", TRUE>>, <<"App2", "SvcC", FALSE>> }

OverlapSelections == { <<FileA, FilePng>>, <<FilePkg>> }

OverlapInit == InitWith(OverlapEvents, OverlapEvents, OverlapVariants)

OverlapNext ==
  \/ \E u \in 1..OverlapEvents, sel \in OverlapSelections : UploadSelect(u, sel)
  \/ \E u \in 1..OverlapEvents : \E order \in ReadOrders(uploads[u].sel) :
        UploadCommit(u, order)
  \/ \E u \in 1..OverlapEvents : \E resp \in AnyAnalyzeAnswer : UploadAnalyzed(u, resp)
  \/ \E r \in 1..OverlapEvents : RunStart(r)
  \/ \E r \in 1..OverlapEvents : \E resp \in OverlapConvertAnswer(Awaited(r)) :
        RunConverted(r, resp)
  \/ \E r \in 1..OverlapEvents : RunZipped(r)
  \/ \E r \in 1..OverlapEvents : RunZipFailed(r)

OverlapSpec == OverlapInit /\ [][OverlapNext]_vars

\* ================================================================ claims
\* Run r has just returned: its archive is generated and its locals are
\* still at hand.
Done(r) == runs[r].pc = "done"

\* The list in the state is still the one run r was started on.
SameList(r) ==
  /\ Len(files) = Len(runs[r].files)
  /\ \A k \in 1..Len(files) : files[k].id = runs[r].files[k].id

\* What the convert call of a logged file did.
Threw(entry) == entry.res.t = "throw"
Succeeded(entry) == entry.res.t = "ret" /\ entry.res.val.isArray
Skipped(entry) == entry.res.t = "skip"

\* The positions of run r's list with property P of their log entry.
Positions(r, P(_)) == {k \in 1..Len(runs[r].log) : P(runs[r].log[k])}

RECURSIVE Sum(_)
Sum(s) == IF s = <<>> THEN 0 ELSE Head(s) + Sum(Tail(s))

\* The file's own content as its only output file.
PassThrough(f) == << [name |-> f.name, content |-> f.content, path |-> f.path] >>

\* C1: after a batch run completes, every file of the list the run was
\* started on has at least one entry in the archive the run generated.
C1_EveryFileArchived ==
  \A r \in DOMAIN runs :
    Done(r) =>
      \A k \in 1..Len(runs[r].files) :
        \E p \in DOMAIN runs[r].zip : runs[r].zip[p].src = runs[r].files[k].id

\* C2: when a run ends, every file whose convert call threw has status
\* 'error', a non-empty error message, its original content as its
\* outputFiles, and its original content in the archive at its own path.
C2_FailedFilePassesThrough ==
  \A r \in DOMAIN runs :
    Done(r) /\ SameList(r) =>
      \A k \in Positions(r, Threw) :
        /\ files[k].status = "error"
        /\ files[k].error \notin {NoValue, ""}
        /\ files[k].outputFiles = PassThrough(files[k])
        /\ files[k].path \in DOMAIN runs[r].zip
        /\ runs[r].zip[files[k].path].content = files[k].content

\* No other run is between its start and its return.
OnlyRun(r) == \A q \in DOMAIN runs : q # r => runs[q].pc \notin {"converting", "zipping"}

\* C3: during a run the progress is round(100 * (index + 1) / total) of the
\* last file handled (0 before the first), it is below 100 while a file is
\* still unprocessed and 100 once the last file has been processed.
C3_ProgressTracksFiles ==
  \A r \in DOMAIN runs :
    OnlyRun(r) =>
      /\ runs[r].pc = "converting" =>
           /\ progress = IF runs[r].i = 0 THEN 0
                         ELSE Progress(runs[r].i - 1, Len(runs[r].files))
           /\ progress < 100
      /\ runs[r].pc \in {"zipping", "done"} => progress = 100

\* The creation stamps of the entries the history holds.
Kept == {history[k].seq : k \in 1..Len(history)}

\* The stamps of the entries a run has created and not yet handed to
\* setHistory.
Pending == UNION {{runs[r].newHistoryItems[k].seq : k \in 1..Len(runs[r].newHistoryItems)}
                    : r \in {q \in DOMAIN runs : runs[q].pc = "converting"}}

\* C4: the history never holds more than 50 entries, and an entry is only
\* dropped when every entry created before it is dropped too: the history
\* holds the newest entries.
C4_HistoryCapped ==
  /\ Len(history) <= HistoryCap
  /\ \A s \in Kept : \A t \in (s + 1)..clock : t \in Kept \cup Pending

\* C5: after a run, the report's splitsFound is the number of files of the
\* list whose outputFiles has more than one element.
C5_SplitsMatchOutputs ==
  \A r \in DOMAIN runs :
    app = "App2" /\ Done(r) /\ SameList(r) =>
      runs[r].report.splitsFound
        = Cardinality({k \in 1..Len(files) : Len(files[k].outputFiles) > 1})

OutputCount(entry) == IF Succeeded(entry) THEN Len(entry.res.val.items) ELSE 1

\* C7: after a run the archive holds one entry per output file of every
\* converted file, one per file passed through, and the report.
C7_ArchiveEntryCount ==
  \A r \in DOMAIN runs :
    app = "App2" /\ Done(r) =>
      Cardinality(DOMAIN runs[r].zip)
        = Sum([k \in 1..Len(runs[r].log) |-> OutputCount(runs[r].log[k])]) + 1

\* The convert call of the entry's file failed: it threw, or what it
\* returned made the handler throw.
FailedEntry(entry) == ~Skipped(entry) /\ ~Succeeded(entry)

\* The names of the failed files, in processing order.
RECURSIVE FailedNames(_, _)
FailedNames(fs, log) ==
  IF log = <<>> THEN <<>>
  ELSE (IF FailedEntry(Head(log)) THEN <<Head(fs).name>> ELSE <<>>)
         \o FailedNames(Tail(fs), Tail(log))

\* C8: a run with a failing convert call still handles every file; every
\* file whose conversion did not fail ends the run 'completed', and
\* manualReviewRequired names the failed files, once each, in order.
C8_FailureIsolated ==
  \A r \in DOMAIN runs :
    Done(r) /\ SameList(r) /\ Positions(r, FailedEntry) # {} =>
      /\ Len(runs[r].log) = Len(runs[r].files)
      /\ \A k \in 1..Len(files) :
           ~FailedEntry(runs[r].log[k]) => files[k].status = "completed"
      /\ app = "App2" =>
           runs[r].report.manualReviewRequired = FailedNames(runs[r].files, runs[r].log)

\* The Gateway calls in flight: an awaited analyze or convert call.
InFlight ==
  Cardinality({u \in DOMAIN uploads : uploads[u].pc = "analyzing"})
    + Cardinality({r \in DOMAIN runs : runs[r].pc = "converting"})

\* C9: at most one Gateway call is in flight at any time.
C9_OneGatewayCall == InFlight <= 1

\* C10: no analyze call is sent to the Gateway for an empty file list.
C10_NoAnalysisOfNothing ==
  \A u \in DOMAIN uploads : uploads[u].pc = "analyzing" => Len(uploads[u].loaded) > 0

\* The source language run r passes to each of its convert calls:
\* effectiveSourceLang (App2), the `sourceLang` of the try block (App1).
PassedLang(r) ==
  IF app = "App2" THEN runs[r].effectiveSourceLang
                  ELSE PrimaryOrFallback(runs[r].analysis)

\* Run r has passed its start and has not been forgotten.
Active(r) == runs[r].pc \in {"converting", "zipping", "done"}

\* C11: while no analysis is available the selected source language is
\* "auto", and a run started then goes on with 'javascript' as the source
\* language of every convert call and of every history entry it creates.
C11_AutoFallsBack ==
  /\ analysis = Null => sourceLang = "auto"
  /\ \A r \in DOMAIN runs :
       Active(r) /\ runs[r].analysis = Null =>
         /\ PassedLang(r) = "javascript"
         /\ \A k \in 1..Len(runs[r].newHistoryItems) :
              runs[r].newHistoryItems[k].sourceLang = "javascript"

\* A run without analysis has converted a file and returned.
C11_Witness ==
  \E r \in DOMAIN runs :
    /\ Done(r) /\ runs[r].analysis = Null
    /\ Positions(r, Succeeded) # {}
    /\ PassedLang(r) = "javascript"

\* The Error getAI throws when process.env.API_KEY is not set (SvcC).
KeyMissingMessage == "API Key niet gevonden."

\* C12: while the API key is missing no Gateway call is in flight, and a
\* file whose conversion failed carries the configuration error.
C12_NoCallWithoutKey ==
  ~apiKey =>
    /\ InFlight = 0
    /\ \A k \in 1..Len(files) :
         files[k].status = "error" => files[k].error = KeyMissingMessage

\* The answers that hold no `files` array: the call threw, no text, text
\* that is not JSON, JSON without the field.
Unusable == {"reject", "noText", "badJson", "noFiles"}

\* What convertFileWithSplitting owes its caller for the answer `resp`: it
\* throws on an unusable answer, and what it returns is a non-empty array.
FailsOrReturnsFiles(resp, res) ==
  /\ resp.kind \in Unusable => res.t = "throw"
  /\ res.t = "ret" => res.val.isArray /\ Len(res.val.items) > 0

\* C13: whatever the Gateway answers to the convert call in flight,
\* convertFileWithSplitting throws on an unusable answer and otherwise
\* returns a non-empty array; so did every call the run has logged.
C13_ConvertFailsOrReturnsFiles ==
  \A r \in DOMAIN runs :
    app = "App2" =>
      /\ runs[r].pc = "converting" =>
           \A resp \in AnyConvertAnswer(Awaited(r)) :
             FailsOrReturnsFiles(resp, ConvertFileWithSplitting(svc, resp))
      /\ \A k \in 1..Len(runs[r].log) :
           LET res == runs[r].log[k].res
           IN res.t = "ret" => res.val.isArray /\ Len(res.val.items) > 0

\* The required fields of a ProjectAnalysis are there.
HasRequired(a) == a.projectType # NoValue /\ a.primaryLanguage # NoValue

\* C14: whatever the Gateway answers to the analyze call in flight,
\* analyzeProject throws when the call was rejected or brought no text, and
\* what it returns has projectType and primaryLanguage; so has the analysis
\* the component holds.
C14_AnalysisHasRequiredFields ==
  /\ \A u \in DOMAIN uploads :
       uploads[u].pc = "analyzing" =>
         \A resp \in AnyAnalyzeAnswer :
           LET res == AnalyzeProject(svc, resp)
           IN /\ resp.kind \in {"reject", "noText"} => res.t = "throw"
              /\ res.t = "ret" => HasRequired(res.val)
  /\ analysis # Null => HasRequired(analysis)

\* C15: the ids of the files of the list are pairwise distinct.
C15_UniqueIds ==
  \A j, k \in 1..Len(files) : j # k => files[j].id # files[k].id

\* A list of three files whose reads completed out of selection order.
C15_Witness ==
  /\ Len(files) = 3
  /\ \E j, k \in 1..Len(files) : j < k /\ files[j].id[3] > files[k].id[3]

\* The status changes the handlers make one at a time, and the pairs a step
\* that makes several of them in a row can show.
StatusSteps ==
  { <<"idle", "processing">>, <<"processing", "completed">>,
    <<"processing", "error">> }
StatusPaths ==
  StatusSteps \cup { <<"idle", "completed">>, <<"idle", "error">> }

\* The convert call of a converting run is for a file that is 'processing'.
ConvertOnlyWhileProcessing ==
  \A r \in DOMAIN runs :
    runs[r].pc = "converting" =>
      \A k \in 1..Len(files) :
        files[k].id = Awaited(r).id => files[k].status = "processing"

\* C16: every status change of a file of the list is idle->processing,
\* processing->completed or processing->error (a step that makes several
\* changes shows a path of them), and a convert call is in flight for a file
\* only while the file is 'processing'.
C16_StatusLifecycle ==
  /\ []ConvertOnlyWhileProcessing
  /\ [][\A j \in 1..Len(files) : \A k \in 1..Len(files') :
          files[j].id = files'[k].id /\ files[j].status # files'[k].status =>
            <<files[j].status, files'[k].status>> \in StatusPaths]_vars

\* A file the run passes through: a binary file loaded as an asset, or (in
\* the version that knows CONFIG_FILES) a recognized config file.
IsAssetFile(f) == f.isAsset \/ (app = "App2" /\ IsConfig(f.name))

\* The original content of the file at f.path, as text or as the File itself.
Original(f) == { <<"text", f.path>>, <<"blob", f.path>> }

\* C17: an asset is never 'processing' or 'error': from its load on its
\* status is 'completed' and its outputFiles are its original content at its
\* original path, and the archive of a completed run has its original content
\* at its original path.
C17_AssetsPassThrough ==
  /\ \A k \in 1..Len(files) :
       IsAssetFile(files[k]) =>
         /\ files[k].status = "completed"
         /\ Len(files[k].outputFiles) = 1
         /\ files[k].outputFiles[1].path = files[k].path
         /\ files[k].outputFiles[1].content \in Original(files[k])
  /\ \A r \in DOMAIN runs :
       Done(r) =>
         \A k \in 1..Len(runs[r].files) :
           LET f == runs[r].files[k]
           IN IsAssetFile(f) =>
                /\ f.path \in DOMAIN runs[r].zip
                /\ runs[r].zip[f.path].src = f.id
                /\ runs[r].zip[f.path].content \in Original(f)

\* C18: once a convert call of a run has failed for lack of the Gateway
\* credential, the run issues no convert call for a later file; a run in
\* which no call fails for that reason goes through its whole list.
C18_ConfigurationFailureAborts ==
  \A r \in DOMAIN runs :
    IF GetAIThrows(svc, apiKey)
      THEN \A j, k \in 1..Len(runs[r].log) :
             j < k /\ Threw(runs[r].log[j]) => Skipped(runs[r].log[k])
      ELSE Done(r) => Len(runs[r].log) = Len(runs[r].files)

\* C19: a run handles its files one by one in list order, calls convert once
\* for each file that is neither an asset nor a recognized config file, and
\* never for an asset or a recognized config file: when the run is over, the
\* calls are as many as those files.
C19_OneConvertPerFile ==
  \A r \in DOMAIN runs :
    /\ Len(runs[r].log) <= Len(runs[r].files)
    /\ \A k \in 1..Len(runs[r].log) :
         LET f == runs[r].files[k]
         IN /\ runs[r].log[k].id = f.id
            /\ Skipped(runs[r].log[k]) <=> (f.isAsset \/ IsConfig(f.name))
    /\ Done(r) => Len(runs[r].log) = Len(runs[r].files)

\* Run r has called convert: a call is awaited, or one is in its log.
HasConverted(r) ==
  \/ runs[r].pc = "converting"
  \/ \E k \in 1..Len(runs[r].log) : ~Skipped(runs[r].log[k])

\* C20: the source language a run passes to its convert calls is a
\* recognized language tag, never "auto" and never a missing value.
C20_RecognizedSourceLang ==
  \A r \in DOMAIN runs :
    HasConverted(r) => PassedLang(r) \in Languages /\ PassedLang(r) # "auto"

\* The files of run r at the positions of S, in list order.
FilesAt(r, S) ==
  LET at == Ascending(S) IN [k \in 1..Len(at) |-> runs[r].files[at[k]]]

\* The positions of run r's list whose iteration ends with setProgress.
SetsProgress(r) ==
  {k \in 1..Len(runs[r].log) : app = "App2" \/ ~Skipped(runs[r].log[k])}

C22_ReportInArchive ==
  \A r \in DOMAIN runs :
    /\ runs[r].pc = "converting" => runs[r].report = Null
    /\ Done(r) =>
         /\ runs[r].report # Null
         /\ Len(runs[r].log) = Len(runs[r].files)
         /\ ReportPath \in DOMAIN runs[r].zip
         /\ runs[r].zip[ReportPath].src = ReportSrc
         /\ runs[r].zip[ReportPath].content = ReportJson(runs[r].report)

\* The entries run r has created so far, oldest first: the run's own list in
\* the second version, the front of the history (newest first) in the first.
Created(r, n) ==
  IF app = "App2" THEN runs[r].newHistoryItems
  ELSE [k \in 1..n |-> history[n + 1 - k]]

\* The entry the conversion of position p of run r is to leave, but for its
\* stamp.
Expected(r, p) ==
  [ fileId |-> runs[r].files[p].id, fileName |-> runs[r].files[p].name,
    sourceLang |-> PassedLang(r), targetLang |-> targetLang,
    originalContent |-> runs[r].files[p].content,
    outputFiles |-> runs[r].log[p].res.val.items ]

Unstamped(h) ==
  [ fileId |-> h.fileId, fileName |-> h.fileName, sourceLang |-> h.sourceLang,
    targetLang |-> h.targetLang, originalContent |-> h.originalContent,
    outputFiles |-> h.outputFiles ]

\* The entries of a run are those of its successful conversions, one each,
\* and once the loop is over they stand at the front of the history.
OneEntryPerSuccess ==
  \A r \in DOMAIN runs :
    Active(r) /\ ~runs[r].overlapped =>
      LET ok == Ascending(Positions(r, Succeeded))
          n == Len(ok)
      IN /\ app = "App1" \/ runs[r].pc # "converting" => Len(history) >= n
         /\ Len(Created(r, n)) = n
         /\ \A k \in 1..n : Unstamped(Created(r, n)[k]) = Expected(r, ok[k])
         /\ app = "App2" /\ runs[r].pc # "converting" =>
              \A k \in 1..n : history[k] = runs[r].newHistoryItems[k]

\* C23: a run adds to the history one entry for each file it converted and
\* none for the files it kept or failed on; the entry holds the content,
\* the output files and the languages of that conversion, and an entry of
\* the history never changes.
C23_HistoryOfSuccesses ==
  /\ []OneEntryPerSuccess
  /\ [][\A j \in 1..Len(history) : \A k \in 1..Len(history') :
          history[j].seq = history'[k].seq => history[j] = history'[k]]_vars

\* A completed run that converted a file into a file, failed on another and
\* kept an asset.
C23_Witness ==
  \E r \in DOMAIN runs :
    /\ Done(r) /\ OnlyRun(r)
    /\ \E k \in Positions(r, Succeeded) : Len(runs[r].log[k].res.val.items) > 0
    /\ Positions(r, FailedEntry) # {}
    /\ Positions(r, Skipped) # {}

\* The ids of the files run r handles in the step: those it logs, and the
\* one whose convert call it starts to await.
HandledIds(r) ==
  { runs'[r].files[p].id :
      p \in { q \in 1..Len(runs'[r].files) :
                \/ Len(runs[r].log) < q /\ q <= Len(runs'[r].log)
                \/ runs'[r].pc = "converting" /\ q = runs'[r].i + 1 } }

\* C24: a step of a run keeps the length and the order of the list and the
\* id, name, path and content of every entry, and changes no entry but those
\* of the files it handles in that step.
C24_UpdatesOneEntry ==
  [][uploads' = uploads =>
       /\ Len(files') = Len(files)
       /\ \A k \in 1..Len(files) :
            /\ files'[k].id = files[k].id
            /\ files'[k].name = files[k].name
            /\ files'[k].path = files[k].path
            /\ files'[k].content = files[k].content
            /\ files'[k] # files[k] =>
                 \E r \in DOMAIN runs :
                   runs'[r].pc \in {"converting", "zipping"}
                     /\ files[k].id \in HandledIds(r)]_vars

\* A run awaits the convert call of a file it has marked 'processing' while
\* another file of the list is still 'idle'.
C24_Witness ==
  \E r \in DOMAIN runs :
    /\ runs[r].pc = "converting" /\ SameList(r)
    /\ files[runs[r].i + 1].status = "processing"
    /\ \E k \in 1..Len(files) : files[k].status = "idle"

InProgress(r) == runs[r].pc \in {"converting", "zipping"}

\* C26: at most one run is in progress, and while a run is in progress
\* isProcessing is true (the run button is disabled) and the list is the one
\* the run was started on.
C26_OneRunAtATime ==
  /\ Cardinality({r \in DOMAIN runs : InProgress(r)}) <= 1
  /\ \A r \in DOMAIN runs : InProgress(r) => isProcessing /\ SameList(r)

\* Run r has ended: the flag is reset and no file is 'processing'.
Ended(r) ==
  /\ ~InProgress(r)
  /\ ~isProcessing
  /\ \A k \in 1..Len(files) : files[k].status # "processing"

\* C27: when every pending read, Gateway call and archive generation
\* completes, a run that has started ends with isProcessing false and no
\* file 'processing', whether the archive is generated or not.
C27_RunEnds == \A r \in 1..LiveRuns : InProgress(r) ~> Ended(r)

\* The upload that loaded the list fs (the second component of its ids).
LoadOf(fs) == fs[1].id[2]

\* Analysis a is absent or is the analysis of the (non-empty) list fs.
AnalysisOf(a, fs) == Len(fs) > 0 => a = Null \/ a.load = LoadOf(fs)

\* C28: once a load has finished, the stored analysis is absent or that of
\* the loaded list, and the analysis a run works with is absent or that of
\* the list the run converts.
C28_AnalysisOfLoadedList ==
  /\ (\A u \in DOMAIN uploads : uploads[u].pc \in {"idle", "done"}) =>
       AnalysisOf(analysis, files)
  /\ \A r \in DOMAIN runs :
       Active(r) => AnalysisOf(runs[r].analysis, runs[r].files)

\* The positions of a selection whose file is loaded.
LoadedPositions(sel) ==
  ReadPositions(sel) \cup (IF app = "App2" THEN SyncV2(sel) ELSE {})

\* C29: the committed list holds each non-excluded file of the selection
\* once, in the order of the selection.
C29_SelectionOrder ==
  Len(files) > 0 =>
    LET kept == Ascending(LoadedPositions(uploads[LoadOf(files)].sel))
    IN /\ Len(files) = Len(kept)
       /\ \A k \in 1..Len(files) : files[k].id[3] + 1 = kept[k]

\* The report and the URL are absent while a run is in progress, and are
\* those of the run that has just returned.
ExposedAfterRun ==
  \A r \in DOMAIN runs :
    app = "App2" =>
      /\ InProgress(r) => zipUrl = Null /\ report = Null
      /\ Done(r) =>
           /\ Len(runs[r].log) = Len(runs[r].files)
           /\ zipUrl = Url(runs[r].zip)
           /\ report = runs[r].report

\* Upload u starts in the step.
Selects(u) == uploads[u].pc = "idle" /\ uploads'[u].pc # "idle"

\* C30: in the second version the report and the URL of the archive are
\* absent while a run is in progress; they are set together when a run
\* returns, to the report and the archive of that run, the last one started;
\* selecting a folder clears both.
C30_ReportAndUrl ==
  /\ []ExposedAfterRun
  /\ [][app = "App2" =>
          /\ (\E u \in DOMAIN uploads : Selects(u)) => zipUrl' = Null /\ report' = Null
          /\ zipUrl' # zipUrl \/ report' # report =>
                \/ zipUrl' = Null /\ report' = Null
                \/ \E r \in DOMAIN runs :
                     /\ runs'[r].pc = "done"
                     /\ \A q \in DOMAIN runs : q > r => runs'[q].pc = "idle"
                     /\ zipUrl' = Url(runs'[r].zip)
                     /\ report' = runs'[r].report]_vars

====
